---- MODULE Spec2Model ----
(***************************************************************************)
(* Model of Root_Project/app.py: the shelter recommendation service.      *)
(*                                                                         *)
(* Conventions.                                                            *)
(*  - Priority labels are written in ASCII: "Highest", "High", "Medium",   *)
(*    "Low", "Lowest" stand for the five keys of PRIORITY_WEIGHTS, in the  *)
(*    order of the source; "Other" is a string that is not a key.          *)
(*  - A JSON value that is absent or null is the string "None" (labels)    *)
(*    or a record of type "null" (numbers).                                *)
(*  - Python floats are modelled by exact rationals <<num, den>>, den > 0. *)
(*    round(x, 1) yields an integer number of tenths.  Where the exact     *)
(*    value lies half way between two tenths the last bit of the float     *)
(*    decides; the model fixes that direction in tie_up for a whole run,   *)
(*    so that rounding stays a function of its argument.                   *)
(***************************************************************************)
EXTENDS Integers, Sequences, FiniteSets, TLC

VARIABLES
    db,            \* shelters.csv: whether it exists, and its rows
    tie_up,        \* direction of round() at exact ties (see above)
    op,            \* the handler that served the last request
    request,       \* the JSON body of the last request
    origin,        \* recalculation: the request that scored the submitted list
    user_profile,  \* the profile the last handler built
    candidates,    \* nearest_5 / sorted_s of the last handler
    results,       \* the scored list of the last handler, before its sort
    response,      \* the last response
    pc,            \* "serve", or the position of a direct call of the scorer
    score_in,      \* arguments of a direct call of the scorer
    score_out      \* its unrounded values and its return value

vars == <<db, tie_up, op, request, origin, user_profile, candidates,
          results, response, pc, score_in, score_out>>

-----------------------------------------------------------------------------
(* Bounds of the model *)

MaxShelters == 6

MaxRanked == 2

MaxFaulty == 2

MaxRows == 1

MaxPeople == 7

(* Program constants *)

NearestK == 5

StockFull == 20

LargeGroup == 6

ScoreCap == 100

WindowStart == 1

WindowEnd == 4

Items == <<"supply_a", "supply_b", "supply_c">>

Labels == {"Highest", "High", "Medium", "Low", "Lowest"}

-----------------------------------------------------------------------------
(* Rational arithmetic standing for float arithmetic *)

Rat(n, d) == <<n, d>>

RLess(a, b) == a[1] * b[2] < b[1] * a[2]

REq(a, b) == a[1] * b[2] = b[1] * a[2]

RMin(a, b) == IF RLess(b, a) THEN b ELSE a

RMax(a, b) == IF RLess(a, b) THEN b ELSE a

RAdd(a, b) == Rat(a[1] * b[2] + b[1] * a[2], a[2] * b[2])

RMul(a, b) == Rat(a[1] * b[1], a[2] * b[2])

(* a / b for b > 0 *)
RDiv(a, b) == Rat(a[1] * b[2], a[2] * b[1])

(* round(x, 1), in tenths; up decides the exact ties *)
Round1(x, up) ==
    LET t == 10 * x[1]
        q == t \div x[2]
        r == t % x[2]
    IN  IF 2 * r < x[2] THEN q
        ELSE IF 2 * r > x[2] THEN q + 1
        ELSE IF up THEN q + 1 ELSE q

-----------------------------------------------------------------------------
(* calculate_recommendation_score *)

PRIORITY_WEIGHTS ==
    [l \in Labels |->
        CASE l = "Highest" -> 10
          [] l = "High"    -> 6
          [] l = "Medium"  -> 3
          [] l = "Low"     -> -5
          [] l = "Lowest"  -> -20]

(* user_profile["needs"].get(item, default) *)
NeedsGet(needs, item) ==
    IF item \in DOMAIN needs THEN needs[item] ELSE "Medium"

(* PRIORITY_WEIGHTS.get(priority, 3) *)
WeightOf(priority) ==
    IF priority \in Labels THEN PRIORITY_WEIGHTS[priority] ELSE 3

(* the loop over the three items: the pair <<total_weight, acquired_weight>>
   after the first k items, acquired_weight as a rational *)
RECURSIVE SupplyLoop(_, _, _)
SupplyLoop(needs, shelter_features, k) ==
    IF k = 0 THEN <<0, Rat(0, 1)>>
    ELSE LET prev == SupplyLoop(needs, shelter_features, k - 1)
             item == Items[k]
             weight == WeightOf(NeedsGet(needs, item))
             total_weight == IF weight > 0 THEN prev[1] + weight ELSE prev[1]
             item_stock == shelter_features[item]
             acquired_weight ==
                 IF item_stock >= StockFull THEN RAdd(prev[2], Rat(weight, 1))
                 ELSE IF item_stock > 0 THEN RAdd(prev[2], Rat(weight, 2))
                 ELSE prev[2]
         IN  <<total_weight, acquired_weight>>

(* SupplyScore with a lower clamp at 0 added *)
SupplyScoreFloored(needs, shelter_features) ==
    LET acc == SupplyLoop(needs, shelter_features, Len(Items))
        supply_score ==
            IF acc[1] > 0
            THEN RMul(RDiv(acc[2], Rat(acc[1], 1)), Rat(100, 1))
            ELSE RAdd(Rat(100, 1), acc[2])
    IN  RMax(Rat(0, 1), RMin(Rat(ScoreCap, 1), supply_score))

(* supply_score after the clamp of line 80, not rounded *)
SupplyScore(needs, shelter_features) ==
    LET acc == SupplyLoop(needs, shelter_features, Len(Items))
        total_weight == acc[1]
        acquired_weight == acc[2]
        supply_score ==
            IF total_weight > 0
            THEN RMul(RDiv(acquired_weight, Rat(total_weight, 1)), Rat(100, 1))
            ELSE RAdd(Rat(100, 1), acquired_weight)
    IN  RMin(Rat(ScoreCap, 1), supply_score)

(* TotalScore with the group-size test written people_count > 6 *)
TotalScoreStrict(profile, shelter_features) ==
    LET supply_score == SupplyScore(profile.needs, shelter_features)
        congestion_val == shelter_features.congestion
        large == profile.total_people > LargeGroup
        congestion_score ==
            IF large THEN (IF 100 - congestion_val > 0 THEN 100 - congestion_val ELSE 0)
            ELSE congestion_val
        w_congestion == IF large THEN 7 ELSE 5
        w_supply == IF large THEN 3 ELSE 5
    IN  RDiv(RAdd(Rat(congestion_score * w_congestion, 1),
                  RMul(supply_score, Rat(w_supply, 1))),
             Rat(w_congestion + w_supply, 1))

(* total_score, not rounded *)
TotalScore(profile, shelter_features) ==
    LET supply_score == SupplyScore(profile.needs, shelter_features)
        congestion_val == shelter_features.congestion
        people_count == profile.total_people
        large == people_count >= LargeGroup
        congestion_score ==
            IF large THEN (IF 100 - congestion_val > 0 THEN 100 - congestion_val ELSE 0)
            ELSE congestion_val
        w_congestion == IF large THEN 7 ELSE 5
        w_supply == IF large THEN 3 ELSE 5
    IN  RDiv(RAdd(Rat(congestion_score * w_congestion, 1),
                  RMul(supply_score, Rat(w_supply, 1))),
             Rat(w_congestion + w_supply, 1))

FeatureKeys == {"congestion", "supply_a", "supply_b", "supply_c"}

ScoreKeys == {"match_score", "match_rate"}

LocationKeys == {"lat", "lng"}

ScoringHandlers == {"get_disaster_shelters", "recalculate_shelters"}

ItemSet == {"supply_a", "supply_b", "supply_c"}

(* the call: a KeyError when a feature is absent, else the rounded pair *)
calculate_recommendation_score(profile, shelter_features, up) ==
    IF ~(FeatureKeys \subseteq DOMAIN shelter_features)
    THEN [ok |-> FALSE]
    ELSE [ok |-> TRUE,
          total_score |-> Round1(TotalScore(profile, shelter_features), up),
          supply_rate |-> Round1(SupplyScore(profile.needs, shelter_features), up)]

-----------------------------------------------------------------------------
(* JSON values and the two sanitising helpers *)

Null == [t |-> "null", v |-> 0]

JInt(n) == [t |-> "int", v |-> n]

(* int(val) of Python: <<"ok", n>>, <<"default">> for ValueError and
   TypeError, <<"raise">> for OverflowError (a float infinity).  A float is
   held in tenths and truncated toward zero. *)
PyInt(val) ==
    CASE val.t = "int"    -> <<"ok", val.v>>
      [] val.t = "intstr" -> <<"ok", val.v>>
      [] val.t = "float"  -> <<"ok", IF val.v >= 0 THEN val.v \div 10
                                     ELSE -((-val.v) \div 10)>>
      [] val.t = "inf"    -> <<"raise">>
      [] OTHER            -> <<"default">>

safe_int(val, default) ==
    LET r == PyInt(val)
    IN  CASE r[1] = "ok"      -> [ok |-> TRUE, v |-> r[2]]
          [] r[1] = "default" -> [ok |-> TRUE, v |-> default]
          [] OTHER            -> [ok |-> FALSE, v |-> 0]

safe_str(val) == IF val = "None" \/ val = "" THEN "Medium" ELSE val

(* max(1, adult + child) *)
TotalPeople(adult, child) == IF adult + child > 1 THEN adult + child ELSE 1

(* FreshProfile with 0 as the default of adult_count *)
FreshProfileAdultZero(data) ==
    LET adult == safe_int(data.adult_count, 0)
        child == safe_int(data.child_count, 0)
    IN  IF ~adult.ok \/ ~child.ok THEN [ok |-> FALSE]
        ELSE [ok |-> TRUE, adult |-> adult.v, child |-> child.v,
              needs |-> [supply_a |-> safe_str(data.supply_a),
                         supply_b |-> safe_str(data.supply_b),
                         supply_c |-> safe_str(data.supply_c)],
              total_people |-> TotalPeople(adult.v, child.v)]

(* lines 123-134: the profile get_disaster_shelters builds from the body *)
FreshProfile(data) ==
    LET adult == safe_int(data.adult_count, 1)
        child == safe_int(data.child_count, 0)
    IN  IF ~adult.ok \/ ~child.ok THEN [ok |-> FALSE]
        ELSE [ok |-> TRUE, adult |-> adult.v, child |-> child.v,
              needs |-> [supply_a |-> safe_str(data.supply_a),
                         supply_b |-> safe_str(data.supply_b),
                         supply_c |-> safe_str(data.supply_c)],
              total_people |-> TotalPeople(adult.v, child.v)]

(* RecalcProfile that counts the adults only *)
RecalcProfileAdultsOnly(data) ==
    LET adult == safe_int(data.adult_count, 1)
        child == safe_int(data.child_count, 0)
    IN  IF ~adult.ok \/ ~child.ok THEN [ok |-> FALSE]
        ELSE [ok |-> TRUE, adult |-> adult.v, child |-> child.v,
              needs |-> [supply_a |-> safe_str(data.supply_a),
                         supply_b |-> safe_str(data.supply_b),
                         supply_c |-> safe_str(data.supply_c)],
              total_people |-> TotalPeople(adult.v, 0)]

(* lines 179-190: the profile recalculate_shelters builds from the body *)
RecalcProfile(data) ==
    LET adult == safe_int(data.adult_count, 1)
        child == safe_int(data.child_count, 0)
    IN  IF ~adult.ok \/ ~child.ok THEN [ok |-> FALSE]
        ELSE [ok |-> TRUE, adult |-> adult.v, child |-> child.v,
              needs |-> [supply_a |-> safe_str(data.supply_a),
                         supply_b |-> safe_str(data.supply_b),
                         supply_c |-> safe_str(data.supply_c)],
              total_people |-> TotalPeople(adult.v, child.v)]

-----------------------------------------------------------------------------
(* Sorting and selection *)

Abs(x) == IF x < 0 THEN -x ELSE x

(* geodesic(a, b).meters of geopy, on a grid *)
Geodesic(a, b) == Abs(a[1] - b[1]) + Abs(a[2] - b[2])

SortKey(e, field, reverse) == IF reverse THEN -e[field] ELSE e[field]

(* sorted(s, key=lambda x: x[field], reverse=reverse): Python's sort is
   stable, also with reverse=True *)
RECURSIVE Sorted(_, _, _)
Sorted(s, field, reverse) ==
    IF s = <<>> THEN <<>>
    ELSE LET n == Len(s)
             t == Sorted(SubSeq(s, 1, n - 1), field, reverse)
             x == s[n]
             p == Cardinality({i \in 1..Len(t) :
                     SortKey(t[i], field, reverse) <= SortKey(x, field, reverse)})
         IN  SubSeq(t, 1, p) \o <<x>> \o SubSeq(t, p + 1, Len(t))

Reverse(s) == [i \in 1..Len(s) |-> s[Len(s) + 1 - i]]

(* SortByScore by an ascending sort that is then reversed *)
SortByScoreFlipped(res) == Reverse(Sorted(res, "match_score", FALSE))

(* lines 166 and 201: sorted(results, key=match_score, reverse=True) *)
SortByScore(res) == Sorted(res, "match_score", TRUE)

(* s[a:b] of Python for 0 <= a, 0 <= b *)
Slice(s, a, b) ==
    LET hi == IF b < Len(s) THEN b ELSE Len(s)
    IN  IF a >= hi THEN <<>> ELSE SubSeq(s, a + 1, hi)

(* lines 138-143 and 215-218: one record per row of the data frame *)
Candidates(user_loc, df) ==
    [i \in 1..Len(df) |->
        [name |-> df[i].name, lat |-> df[i].lat, lng |-> df[i].lng,
         distance |-> Geodesic(user_loc, <<df[i].lat, df[i].lng>>)]]

(* Nearest5 by a descending sort that is then reversed *)
Nearest5Flipped(cands) ==
    Slice(Reverse(Sorted(cands, "distance", TRUE)), 0, NearestK)

(* line 144 *)
Nearest5(cands) == Slice(Sorted(cands, "distance", FALSE), 0, NearestK)

(* NearestWindow that always skips the nearest entry *)
NearestWindowSkipping(shelters) ==
    LET sorted_s == Sorted(shelters, "distance", FALSE)
        end_idx == IF Len(sorted_s) >= 4 THEN WindowEnd ELSE Len(sorted_s)
    IN  IF sorted_s = <<>> THEN <<>> ELSE Slice(sorted_s, WindowStart, end_idx)

(* lines 219-223 *)
NearestWindow(shelters) ==
    LET sorted_s == Sorted(shelters, "distance", FALSE)
        start_idx == IF Len(sorted_s) >= 2 THEN WindowStart ELSE 0
        end_idx == IF Len(sorted_s) >= 4 THEN WindowEnd ELSE Len(sorted_s)
    IN  IF sorted_s = <<>> THEN <<>> ELSE Slice(sorted_s, start_idx, end_idx)

-----------------------------------------------------------------------------
(* Responses *)

ErrorResponse(e) == [status |-> 500, error |-> e, body |-> <<>>]

OkResponse(list) == [status |-> 200, error |-> "", body |-> list]

(* lines 146-164: the scored entries of a fresh search, before the sort *)
FreshResults(profile, nearest_5, feats, up) ==
    [i \in 1..Len(nearest_5) |->
        LET sc == calculate_recommendation_score(profile, feats[i], up)
        IN  [name |-> nearest_5[i].name, lat |-> nearest_5[i].lat,
             lng |-> nearest_5[i].lng, distance |-> nearest_5[i].distance,
             data |-> feats[i],
             match_score |-> sc.total_score, match_rate |-> sc.supply_rate]]

(* Rescore that builds a new entry and forgets the distance *)
RescoreRebuilt(profile, item, up) ==
    LET sc == calculate_recommendation_score(profile, item.data, up)
    IN  [name |-> item.name, lat |-> item.lat, lng |-> item.lng,
         distance |-> 0, data |-> item.data,
         match_score |-> sc.total_score, match_rate |-> sc.supply_rate]

(* lines 194-198: one pass of the loop body; item with its two scores set *)
Rescore(profile, item, up) ==
    LET sc == calculate_recommendation_score(profile, item.data, up)
    IN  [f \in DOMAIN item \cup ScoreKeys |->
            CASE f = "match_score" -> sc.total_score
              [] f = "match_rate"  -> sc.supply_rate
              [] OTHER             -> item[f]]

(* the loop of lines 193-199 raises at the first entry without "data" or
   with a feature absent *)
RescoreFails(shelter_list) ==
    \E i \in 1..Len(shelter_list) :
        \/ "data" \notin DOMAIN shelter_list[i]
        \/ ~(FeatureKeys \subseteq DOMAIN shelter_list[i].data)

RecalcResults(profile, shelter_list, up) ==
    [i \in 1..Len(shelter_list) |-> Rescore(profile, shelter_list[i], up)]

-----------------------------------------------------------------------------
(* The inputs of the model *)

Coords == {<<1, 0>>, <<0, 1>>, <<2, 0>>}

LineCoords == {<<1, 0>>, <<2, 0>>}

(* shelters.csv with n rows; a row's name is its line number *)
Rows(n, coords) ==
    {[i \in 1..n |-> [name |-> i, lat |-> c[i][1], lng |-> c[i][2]]] :
        c \in [1..n -> coords]}

CsvFiles(max, coords) ==
    {[exists |-> FALSE, rows |-> <<>>]}
    \cup {[exists |-> TRUE, rows |-> r] :
            r \in UNION {Rows(n, coords) : n \in 0..max}}

Feature(c, a, b, d) == [congestion |-> c, supply_a |-> a, supply_b |-> b, supply_c |-> d]

(* the fields of a request body that make the profile *)
ProfileKeys == {"adult_count", "child_count", "supply_a", "supply_b", "supply_c"}

RawProfile(data) == [k \in ProfileKeys |-> data[k]]

WithLocation(p, hasLat, hasLng) ==
    [k \in ProfileKeys \cup (IF hasLat THEN {"lat"} ELSE {})
                       \cup (IF hasLng THEN {"lng"} ELSE {}) |->
        IF k \in ProfileKeys THEN p[k] ELSE 0]

WithList(p, list) ==
    [k \in ProfileKeys \cup {"shelter_list"} |->
        IF k \in ProfileKeys THEN p[k] ELSE list]

Without(r, key) == [k \in DOMAIN r \ {key} |-> r[k]]

(* entry i of list without its "data" *)
DropData(list, i) == [list EXCEPT ![i] = Without(@, "data")]

(* entry i of list without the feature key *)
DropFeature(list, i, key) ==
    [list EXCEPT ![i] = [f \in DOMAIN @ |->
                            IF f = "data" THEN Without(@[f], key) ELSE @[f]]]

NoProfile == [ok |-> FALSE]

NoOrigin == [kind |-> "none"]

NoCall == [ok |-> FALSE]

IsRanked == op \in ScoringHandlers
            /\ response.status = 200

-----------------------------------------------------------------------------
(* load_shelter_data *)

load_shelter_data(csv) ==
    IF csv.exists THEN [ok |-> TRUE, df |-> csv.rows] ELSE [ok |-> FALSE]

(* POST /get_disaster_shelters with body data; feats are the values that
   random.randint yields for the candidates *)
FreshOutcome(data, csv, feats, up) ==
    LET profile == FreshProfile(data)
        loaded == load_shelter_data(csv)
        user_loc == <<data.lat, data.lng>>
        nearest_5 == Nearest5(Candidates(user_loc, loaded.df))
        res == FreshResults(profile, nearest_5, feats, up)
    IN  IF ~(LocationKeys \subseteq DOMAIN data)
        THEN [profile |-> NoProfile, candidates |-> <<>>, results |-> <<>>,
              response |-> ErrorResponse("KeyError")]
        ELSE IF ~profile.ok
        THEN [profile |-> NoProfile, candidates |-> <<>>, results |-> <<>>,
              response |-> ErrorResponse("OverflowError")]
        ELSE IF ~loaded.ok
        THEN [profile |-> profile, candidates |-> <<>>, results |-> <<>>,
              response |-> ErrorResponse("FileNotFoundError")]
        ELSE [profile |-> profile, candidates |-> nearest_5, results |-> res,
              response |-> OkResponse(SortByScore(res))]

NumCandidates(csv) ==
    IF Len(csv.rows) < NearestK THEN Len(csv.rows) ELSE NearestK

get_disaster_shelters(Reqs, Feats) ==
    /\ pc = "serve"
    /\ \E data \in Reqs, feats \in [1..NumCandidates(db) -> Feats] :
          \E out \in {FreshOutcome(data, db, feats, tie_up)} :
              /\ op' = "get_disaster_shelters"
              /\ request' = data
              /\ origin' = NoOrigin
              /\ user_profile' = out.profile
              /\ candidates' = out.candidates
              /\ results' = out.results
              /\ response' = out.response
    /\ UNCHANGED <<db, tie_up, pc, score_in, score_out>>

Scorable(item) ==
    "data" \in DOMAIN item /\ FeatureKeys \subseteq DOMAIN item.data

(* RecalcOutcome that skips the entries it cannot score *)
RecalcOutcomeSkipping(data, up) ==
    LET shelter_list == IF "shelter_list" \in DOMAIN data
                        THEN data.shelter_list ELSE <<>>
        profile == RecalcProfile(data)
        res == RecalcResults(profile, SelectSeq(shelter_list, Scorable), up)
    IN  IF ~profile.ok
        THEN [profile |-> NoProfile, results |-> <<>>,
              response |-> ErrorResponse("OverflowError")]
        ELSE [profile |-> profile, results |-> res,
              response |-> OkResponse(SortByScore(res))]

(* POST /recalculate_shelters with body data *)
RecalcOutcome(data, up) ==
    LET shelter_list == IF "shelter_list" \in DOMAIN data
                        THEN data.shelter_list ELSE <<>>
        profile == RecalcProfile(data)
        res == RecalcResults(profile, shelter_list, up)
    IN  IF ~profile.ok
        THEN [profile |-> NoProfile, results |-> <<>>,
              response |-> ErrorResponse("OverflowError")]
        ELSE IF RescoreFails(shelter_list)
        THEN [profile |-> profile, results |-> <<>>,
              response |-> ErrorResponse("KeyError")]
        ELSE [profile |-> profile, results |-> res,
              response |-> OkResponse(SortByScore(res))]

(* the lists a client can submit: the ranked list it was last sent, as it
   is or with something removed, else the empty list *)
Submittable(Damage) ==
    IF IsRanked
    THEN {response.body}
         \cup {DropData(response.body, i) :
                 i \in {j \in 1..Len(response.body) : "data" \in Damage}}
         \cup {DropFeature(response.body, x[1], x[2]) :
                 x \in (1..Len(response.body)) \X (Damage \cap FeatureKeys)}
    ELSE {<<>>}

recalculate_shelters(Profiles, Damage) ==
    /\ pc = "serve"
    /\ \E p \in Profiles :
          \E data \in {WithList(p, l) : l \in Submittable(Damage)}
                      \cup {q \in {p} : "shelter_list" \in Damage} :
             \E out \in {RecalcOutcome(data, tie_up)} :
                 /\ op' = "recalculate_shelters"
                 /\ request' = data
                 /\ origin' = IF IsRanked /\ "shelter_list" \in DOMAIN data
                              THEN [kind |-> op, profile |-> RawProfile(request)]
                              ELSE NoOrigin
                 /\ user_profile' = out.profile
                 /\ candidates' = <<>>
                 /\ results' = out.results
                 /\ response' = out.response
    /\ UNCHANGED <<db, tie_up, pc, score_in, score_out>>

(* POST /get_nearest_shelters *)
NearestOutcome(data, csv) ==
    LET loaded == load_shelter_data(csv)
        user_loc == <<data.lat, data.lng>>
        shelters == Candidates(user_loc, loaded.df)
    IN  IF ~(LocationKeys \subseteq DOMAIN data)
        THEN [candidates |-> <<>>, response |-> ErrorResponse("KeyError")]
        ELSE IF ~loaded.ok
        THEN [candidates |-> <<>>, response |-> ErrorResponse("FileNotFoundError")]
        ELSE [candidates |-> Sorted(shelters, "distance", FALSE),
              response |-> OkResponse(NearestWindow(shelters))]

get_nearest_shelters(Reqs) ==
    /\ pc = "serve"
    /\ \E data \in Reqs :
          \E out \in {NearestOutcome(data, db)} :
              /\ op' = "get_nearest_shelters"
              /\ request' = data
              /\ candidates' = out.candidates
              /\ response' = out.response
    /\ origin' = NoOrigin
    /\ user_profile' = NoProfile
    /\ results' = <<>>
    /\ UNCHANGED <<db, tie_up, pc, score_in, score_out>>

-----------------------------------------------------------------------------
(* A direct call of calculate_recommendation_score *)

CallScore ==
    /\ pc = "call"
    /\ pc' = "done"
    /\ score_out' =
          [ret |-> calculate_recommendation_score(
                       score_in.user_profile, score_in.shelter_features, tie_up),
           supply_score |-> SupplyScore(score_in.user_profile.needs,
                                        score_in.shelter_features),
           total_score |-> TotalScore(score_in.user_profile,
                                      score_in.shelter_features)]
    /\ UNCHANGED <<db, tie_up, op, request, origin, user_profile, candidates,
                   results, response, score_in>>

-----------------------------------------------------------------------------
(* Input sets of the specifications *)

NoRequest == [k \in {} |-> 0]

NoResponse == [status |-> 0, error |-> "", body |-> <<>>]

AnyLabel == Labels \cup {"Other"}

ExtremeLabels == {"Highest", "Lowest"}

(* needs with all three keys, and needs with keys left out *)
NeedsSet ==
    [ItemSet -> AnyLabel]
    \cup UNION {[ks -> ExtremeLabels] : ks \in (SUBSET ItemSet) \ {ItemSet}}

PeopleValues == {1, LargeGroup - 1, LargeGroup, MaxPeople}

CongestionValues == {0, 37, 100}

ScoreFeatures ==
    {Feature(c, a, b, d) : c \in CongestionValues, a \in {0, 1, 19, 20, 100},
                           b \in {0, 19, 20}, d \in {0, 100}}

BadLocations(p) ==
    {WithLocation(p, FALSE, TRUE), WithLocation(p, TRUE, FALSE),
     WithLocation(p, FALSE, FALSE)}

(* fresh-search and nearby requests: every profile with a location, and one
   request for each way a coordinate can be absent *)
Located(Profiles) ==
    {WithLocation(p, TRUE, TRUE) : p \in Profiles}
    \cup BadLocations(CHOOSE p \in Profiles : TRUE)

DefaultProfile ==
    [adult_count |-> Null, child_count |-> Null,
     supply_a |-> "None", supply_b |-> "None", supply_c |-> "None"]

RankProfiles ==
    {[adult_count |-> JInt(LargeGroup - 1), child_count |-> c,
      supply_a |-> a, supply_b |-> "None", supply_c |-> "None"] :
        c \in {Null, JInt(1)}, a \in {"None", "Lowest"}}

RankFeatures == {Feature(0, 100, 100, 100), Feature(50, 10, 10, 10)}

AllDamage == {"shelter_list", "data"} \cup FeatureKeys

NoDamage == {}

RankRequests == {WithLocation(p, TRUE, TRUE) : p \in RankProfiles}

PlainProfiles == {DefaultProfile}

PlainRequests == Located(PlainProfiles)

PlainFeatures == {Feature(30, 0, 100, 100)}

RawCounts ==
    {Null, JInt(-2), JInt(0), JInt(3), [t |-> "str", v |-> 0],
     [t |-> "intstr", v |-> 7], [t |-> "float", v |-> -27],
     [t |-> "inf", v |-> 0]}

SanitizeProfiles ==
    {[adult_count |-> a, child_count |-> c,
      supply_a |-> "", supply_b |-> "Other", supply_c |-> "Low"] :
        a \in RawCounts, c \in {Null, JInt(-2)}}

SanitizeRequests == Located(SanitizeProfiles)

-----------------------------------------------------------------------------
(* Specifications *)

InitServe(max, coords, ups) ==
    /\ db \in CsvFiles(max, coords)
    /\ tie_up \in ups
    /\ op = "none"
    /\ request = NoRequest
    /\ origin = NoOrigin
    /\ user_profile = NoProfile
    /\ candidates = <<>>
    /\ results = <<>>
    /\ response = NoResponse
    /\ pc = "serve"
    /\ score_in = NoCall
    /\ score_out = NoCall

(* ranking: fresh searches and recalculations of intact lists *)
Init == InitServe(MaxRanked, LineCoords, BOOLEAN)

Next ==
    \/ get_disaster_shelters(RankRequests, RankFeatures)
    \/ recalculate_shelters(RankProfiles, NoDamage)

Spec == Init /\ [][Next]_vars

(* selection: every data file of up to MaxShelters rows *)
InitSelect == InitServe(MaxShelters, Coords, {FALSE})

NextSelect ==
    \/ get_disaster_shelters(PlainRequests, PlainFeatures)
    \/ get_nearest_shelters(PlainRequests)

SpecSelect == InitSelect /\ [][NextSelect]_vars

(* requests with something absent *)
InitErrors == InitServe(MaxFaulty, {<<1, 0>>}, BOOLEAN)

NextErrors ==
    \/ get_disaster_shelters(PlainRequests, PlainFeatures)
    \/ recalculate_shelters(PlainProfiles, AllDamage)
    \/ get_nearest_shelters(PlainRequests)

SpecErrors == InitErrors /\ [][NextErrors]_vars

(* the head counts of the request body *)
InitSanitize == InitServe(MaxRows, {<<1, 0>>}, {FALSE})

NextSanitize ==
    \/ get_disaster_shelters(SanitizeRequests, PlainFeatures)
    \/ recalculate_shelters(SanitizeProfiles, NoDamage)

SpecSanitize == InitSanitize /\ [][NextSanitize]_vars

InitScore ==
    /\ db = [exists |-> FALSE, rows |-> <<>>]
    /\ tie_up \in BOOLEAN
    /\ op = "none"
    /\ request = NoRequest
    /\ origin = NoOrigin
    /\ user_profile = NoProfile
    /\ candidates = <<>>
    /\ results = <<>>
    /\ response = NoResponse
    /\ pc = "call"
    /\ score_in \in [user_profile : [needs : NeedsSet, total_people : PeopleValues],
                     shelter_features : ScoreFeatures]
    /\ score_out = NoCall

NextScore == CallScore

SpecScore == InitScore /\ [][NextScore]_vars

-----------------------------------------------------------------------------
(* Properties of the scorer (SpecScore) *)

(* the weight the specification gives a label; a missing key counts as an
   unknown label *)
StatedWeight(needs, item) ==
    IF item \notin DOMAIN needs THEN 3
    ELSE CASE needs[item] = "Highest" -> 10
           [] needs[item] = "High"    -> 6
           [] needs[item] = "Medium"  -> 3
           [] needs[item] = "Low"     -> -5
           [] needs[item] = "Lowest"  -> -20
           [] OTHER                   -> 3

RECURSIVE SumOver(_, _)
SumOver(f, S) ==
    IF S = {} THEN 0
    ELSE LET x == CHOOSE y \in S : TRUE IN f[x] + SumOver(f, S \ {x})

StatedTotalWeight(needs) ==
    SumOver([i \in ItemSet |->
               IF StatedWeight(needs, i) > 0 THEN StatedWeight(needs, i) ELSE 0],
            ItemSet)

(* twice the acquired weight, an integer *)
StatedAcquired2(needs, f) ==
    SumOver([i \in ItemSet |->
               IF f[i] >= 20 THEN 2 * StatedWeight(needs, i)
               ELSE IF f[i] > 0 THEN StatedWeight(needs, i)
               ELSE 0],
            ItemSet)

(* S of the specification, as a rational *)
StatedS(needs, f) ==
    IF StatedTotalWeight(needs) > 0
    THEN Rat(100 * StatedAcquired2(needs, f), 2 * StatedTotalWeight(needs))
    ELSE Rat(200 + StatedAcquired2(needs, f), 2)

StatedSupply(needs, f) ==
    IF RLess(Rat(100, 1), StatedS(needs, f)) THEN Rat(100, 1) ELSE StatedS(needs, f)

(* C1: the supply score computed by calculate_recommendation_score is
   min(100, S), S = acquiredWeight / totalWeight * 100 when totalWeight > 0
   and 100 + acquiredWeight when totalWeight = 0; the second returned value
   is that number rounded to one decimal; there is no lower clamp, so the
   score is negative whenever S is. *)
C1_SupplyScore ==
    pc = "done" =>
        LET needs == score_in.user_profile.needs
            f == score_in.shelter_features
        IN  /\ score_out.ret.ok
            /\ REq(score_out.supply_score, StatedSupply(needs, f))
            /\ score_out.ret.supply_rate = Round1(StatedSupply(needs, f), tie_up)
            /\ (RLess(StatedS(needs, f), Rat(0, 1))
                  => RLess(score_out.supply_score, Rat(0, 1)))

(* a call with a missing key, a stock between 0 and 20 and a negative S *)
C1_Witness ==
    /\ pc = "done"
    /\ DOMAIN score_in.user_profile.needs # ItemSet
    /\ StatedTotalWeight(score_in.user_profile.needs) > 0
    /\ \E i \in ItemSet : score_in.shelter_features[i] \in 1..19
    /\ RLess(score_out.supply_score, Rat(0, 1))

(* C2: the composite score is
   (congestionScore * wC + supplyScore * wS) / (wC + wS) with the clamped,
   unrounded supply score, (7, 3) and max(0, 100 - congestion) for
   total_people >= 6, (5, 5) and congestion for total_people <= 5; the first
   returned value is that number rounded to one decimal. *)
C2_Composite ==
    pc = "done" =>
        LET people == score_in.user_profile.total_people
            cong == score_in.shelter_features.congestion
            ss == StatedSupply(score_in.user_profile.needs, score_in.shelter_features)
            wC == IF people >= 6 THEN 7 ELSE 5
            wS == IF people >= 6 THEN 3 ELSE 5
            cs == IF people >= 6
                  THEN (IF 100 - cong >= 0 THEN 100 - cong ELSE 0)
                  ELSE cong
            stated == Rat(cs * wC * ss[2] + ss[1] * wS, (wC + wS) * ss[2])
        IN  /\ (people <= 5 \/ people >= 6)
            /\ REq(score_out.total_score, stated)
            /\ score_out.ret.total_score = Round1(stated, tie_up)

(* a call at the boundary total_people = 6 where the two weight pairs give
   different results *)
C2_Witness ==
    /\ pc = "done"
    /\ score_in.user_profile.total_people = 6
    /\ score_in.shelter_features.congestion = 37
    /\ ~REq(score_out.supply_score, Rat(100, 1))

(* C10: the composite score lies in the range 0 to 100 *)
C10_CompositeInRange ==
    pc = "done" =>
        /\ ~RLess(score_out.total_score, Rat(0, 1))
        /\ ~RLess(Rat(100, 1), score_out.total_score)
        /\ score_out.ret.total_score >= 0
        /\ score_out.ret.total_score <= 1000

-----------------------------------------------------------------------------
(* Properties of the selection (SpecSelect) *)

Served(handler) == op = handler /\ response.status = 200

(* the distance of row i of the data file from the requested location *)
RowDistance(i) ==
    Geodesic(<<request.lat, request.lng>>, <<db.rows[i].lat, db.rows[i].lng>>)

(* C3: the candidate list of a fresh search over n records has length
   min(5, n), is in non-decreasing distance order, contains no shelter
   farther than a shelter left out, and keeps shelters of equal distance in
   their input order. *)
C3_NearestFive ==
    Served("get_disaster_shelters") =>
        LET n == Len(db.rows)
            chosen == {candidates[i].name : i \in 1..Len(candidates)}
        IN  /\ Len(candidates) = (IF n < 5 THEN n ELSE 5)
            /\ chosen \subseteq 1..n
            /\ Cardinality(chosen) = Len(candidates)
            /\ \A i \in 1..Len(candidates) :
                  candidates[i].distance = RowDistance(candidates[i].name)
            /\ \A i, j \in 1..Len(candidates) :
                  i < j => /\ candidates[i].distance <= candidates[j].distance
                           /\ (candidates[i].distance = candidates[j].distance
                                 => candidates[i].name < candidates[j].name)
            /\ \A r \in (1..n) \ chosen : \A i \in 1..Len(candidates) :
                  candidates[i].distance <= RowDistance(r)

(* six records, two candidates at the same distance, and a record left out
   that is no nearer than a chosen one entered after it *)
C3_Witness ==
    /\ Served("get_disaster_shelters")
    /\ Len(db.rows) = 6
    /\ \E i, j \in 1..Len(candidates) :
          i < j /\ candidates[i].distance = candidates[j].distance
    /\ \E r \in 1..6 : \E i \in 1..Len(candidates) :
          /\ r \notin {candidates[k].name : k \in 1..Len(candidates)}
          /\ RowDistance(r) = candidates[i].distance
          /\ r > candidates[i].name

(* C8: with s the n records in ascending distance order, the nearby listing
   returns s[1..3] (counting from 0) when n >= 4, s[1..n-1] when n is 2 or
   3, the single record when n = 1 and nothing when n = 0; it is empty only
   when n = 0. *)
C8_Window ==
    Served("get_nearest_shelters") =>
        LET n == Len(db.rows)
            s == candidates
            body == response.body
        IN  /\ Len(s) = n
            /\ \A i, j \in 1..n :
                  i < j => /\ s[i].distance <= s[j].distance
                           /\ (s[i].distance = s[j].distance => s[i].name < s[j].name)
            /\ \A i \in 1..n : s[i].distance = RowDistance(s[i].name)
            /\ n >= 4 => body = <<s[2], s[3], s[4]>>
            /\ (n = 2 \/ n = 3) => body = [i \in 1..(n - 1) |-> s[i + 1]]
            /\ n = 1 => body = <<s[1]>>
            /\ n = 0 => body = <<>>
            /\ (body = <<>>) <=> (n = 0)

(* a listing over a single record, which is returned *)
C8_Witness ==
    /\ Served("get_nearest_shelters")
    /\ Len(db.rows) = 1
    /\ Len(response.body) = 1

-----------------------------------------------------------------------------
(* Properties of the ranking (Spec) *)

(* the position of the entry called name in list *)
Position(list, name) == CHOOSE i \in 1..Len(list) : list[i].name = name

Names(list) == {list[i].name : i \in 1..Len(list)}

(* C4: the list a successful fresh search or recalculation returns is in
   non-increasing match_score order, and entries of equal match_score keep
   the order they had before the sort: ascending distance in a fresh search,
   the order of the submitted shelter_list in a recalculation. *)
C4_RankedStable ==
    IsRanked =>
        LET body == response.body
            before == IF op = "get_disaster_shelters" THEN candidates
                      ELSE IF "shelter_list" \in DOMAIN request
                      THEN request.shelter_list ELSE <<>>
        IN  /\ Len(body) = Len(before)
            /\ Names(body) = Names(before)
            /\ \A i, j \in 1..Len(body) :
                  i < j =>
                    /\ body[i].match_score >= body[j].match_score
                    /\ (body[i].match_score = body[j].match_score
                          => Position(before, body[i].name)
                               < Position(before, body[j].name))
            /\ (op = "get_disaster_shelters" =>
                  \A i, j \in 1..Len(before) :
                      i < j => before[i].distance <= before[j].distance)

(* a recalculation that returns two entries of equal score, the farther one
   first, as submitted *)
C4_Witness ==
    /\ Served("recalculate_shelters")
    /\ Len(response.body) = 2
    /\ response.body[1].match_score = response.body[2].match_score
    /\ response.body[1].distance > response.body[2].distance
    /\ request.shelter_list[1].name = response.body[1].name

Kept == {"name", "lat", "lng", "distance", "data"}

(* C5: a successful recalculation returns, for every submitted entry, one
   entry with the same name, lat, lng, distance and feature snapshot; only
   match_score and match_rate differ, and no entry is added, dropped or
   duplicated.  Holding of every step, it holds of every sequence. *)
C5_RecalcFrame ==
    (Served("recalculate_shelters") /\ "shelter_list" \in DOMAIN request) =>
        LET sent == request.shelter_list
            body == response.body
        IN  /\ Len(body) = Len(sent)
            /\ \A i \in 1..Len(sent) :
                  Cardinality({j \in 1..Len(body) : body[j].name = sent[i].name})
                    = Cardinality({j \in 1..Len(sent) : sent[j].name = sent[i].name})
            /\ \A j \in 1..Len(body) : \E i \in 1..Len(sent) :
                  /\ DOMAIN body[j] = DOMAIN sent[i]
                  /\ \A f \in Kept : body[j][f] = sent[i][f]
            /\ \A j \in 1..Len(body) :
                  /\ body[j].lat = db.rows[body[j].name].lat
                  /\ body[j].lng = db.rows[body[j].name].lng

(* the second recalculation in a row, which changed the scores and the
   order of a list of two *)
C5_Witness ==
    /\ Served("recalculate_shelters")
    /\ origin.kind = "recalculate_shelters"
    /\ Len(response.body) = 2
    /\ response.body[1].name = request.shelter_list[2].name
    /\ response.body[1].match_score # request.shelter_list[2].match_score

(* C6: a recalculation of the result of a fresh search under the identical
   profile gives every shelter the match_score and match_rate the fresh
   search gave it. *)
C6_RoundTrip ==
    (/\ Served("recalculate_shelters")
     /\ origin.kind = "get_disaster_shelters"
     /\ origin.profile = RawProfile(request)) =>
        \A j \in 1..Len(response.body) :
            LET was == request.shelter_list[
                          Position(request.shelter_list, response.body[j].name)]
            IN  /\ response.body[j].match_score = was.match_score
                /\ response.body[j].match_rate = was.match_rate

(* such a round trip over two shelters, for a profile with a child *)
C6_Witness ==
    /\ Served("recalculate_shelters")
    /\ origin.kind = "get_disaster_shelters"
    /\ origin.profile = RawProfile(request)
    /\ request.child_count = JInt(1)
    /\ Len(response.body) = 2

-----------------------------------------------------------------------------
(* Properties of requests with something absent (SpecErrors) *)

Failed == response.status = 500 /\ response.error # "" /\ response.body = <<>>

NoLocation ==
    /\ (op = "get_disaster_shelters" \/ op = "get_nearest_shelters")
    /\ ("lat" \notin DOMAIN request \/ "lng" \notin DOMAIN request)

NoList == op = "recalculate_shelters" /\ "shelter_list" \notin DOMAIN request

(* some submitted entry has no feature snapshot, or a snapshot without one
   of its four values *)
BrokenEntry ==
    /\ op = "recalculate_shelters"
    /\ "shelter_list" \in DOMAIN request
    /\ \E i \in 1..Len(request.shelter_list) :
          \/ "data" \notin DOMAIN request.shelter_list[i]
          \/ "congestion" \notin DOMAIN request.shelter_list[i].data
          \/ "supply_a" \notin DOMAIN request.shelter_list[i].data
          \/ "supply_b" \notin DOMAIN request.shelter_list[i].data
          \/ "supply_c" \notin DOMAIN request.shelter_list[i].data

(* C7, as stated: a request with lat or lng absent (fresh search), or with
   shelter_list, an entry's data or one of its four values absent
   (recalculation), ends in an error response and never in a list. *)
C7_AbsentIsError ==
    ((op = "get_disaster_shelters" /\ NoLocation) \/ NoList \/ BrokenEntry)
        => Failed

(* C7, amended: as stated for lat, lng, an entry's data and its four values;
   an absent shelter_list is read as the empty list, and the recalculation
   answers with the empty ranked list unless a head count cannot be
   converted. *)
C7_AbsentIsErrorButList ==
    /\ ((op = "get_disaster_shelters" /\ NoLocation) \/ BrokenEntry) => Failed
    /\ NoList =>
          IF request.adult_count.t = "inf" \/ request.child_count.t = "inf"
          THEN Failed
          ELSE response.status = 200 /\ response.body = <<>>

(* a recalculation of two entries, the second without supply_b, refused *)
C7_Witness ==
    /\ BrokenEntry
    /\ Len(request.shelter_list) = 2
    /\ "data" \in DOMAIN request.shelter_list[2]
    /\ "supply_b" \notin DOMAIN request.shelter_list[2].data
    /\ Scorable(request.shelter_list[1])
    /\ Failed

-----------------------------------------------------------------------------
(* Properties of the head counts (SpecSanitize) *)

Unconvertible(raw) == raw.t = "null" \/ raw.t = "str"

(* the integer that int() makes of a convertible value *)
StatedInt(raw) ==
    IF raw.t = "float"
    THEN (IF raw.v >= 0 THEN raw.v \div 10 ELSE -((-raw.v) \div 10))
    ELSE raw.v

ProfileBuilt ==
    /\ (op = "get_disaster_shelters" \/ op = "recalculate_shelters")
    /\ user_profile.ok

Floored(n) == IF n < 1 THEN 1 ELSE n

(* C9, as stated: both counts are coerced to non-negative integers, a
   non-numeric or missing one becomes 0, and total_people is their sum
   floored at 1. *)
C9_CountsNonNegative ==
    ProfileBuilt =>
        /\ user_profile.adult >= 0
        /\ user_profile.child >= 0
        /\ Unconvertible(request.adult_count) => user_profile.adult = 0
        /\ Unconvertible(request.child_count) => user_profile.child = 0
        /\ user_profile.total_people
             = Floored(user_profile.adult + user_profile.child)

(* C9, amended: each count is converted by int(), which keeps the sign and
   cuts a fraction off toward zero; a non-numeric or missing adult_count
   becomes 1 and a non-numeric or missing child_count becomes 0; an infinite
   count fails the request; total_people is the sum of the two results
   floored at 1. *)
C9_CountsConverted ==
    /\ ProfileBuilt =>
          /\ user_profile.adult = (IF Unconvertible(request.adult_count) THEN 1
                                   ELSE StatedInt(request.adult_count))
          /\ user_profile.child = (IF Unconvertible(request.child_count) THEN 0
                                   ELSE StatedInt(request.child_count))
          /\ user_profile.total_people
               = Floored(user_profile.adult + user_profile.child)
          /\ user_profile.total_people >= 1
    /\ (/\ (op = "get_disaster_shelters" \/ op = "recalculate_shelters")
        /\ (request.adult_count.t = "inf" \/ request.child_count.t = "inf"))
          => ~user_profile.ok /\ Failed

(* a fresh search with a non-numeric adult_count and a negative child_count *)
C9_Witness ==
    /\ Served("get_disaster_shelters")
    /\ request.adult_count.t = "str"
    /\ request.child_count = JInt(-2)
    /\ user_profile.adult = 1
    /\ user_profile.child = -2
    /\ user_profile.total_people = 1

====
